---- MODULE Spec2Model ----
(***************************************************************************)
(* RAS Monitoring client: the real-time reconciliation of streamed sensor  *)
(* readings on the three pages that listen to 'new-sensor-data'            *)
(* (DeviceDashboard, Dashboard, SensorData), the threshold classification  *)
(* and chart formatting functions, and the authentication / routing layer  *)
(* (AuthProvider, axios interceptors, route guards, route table).          *)
(*                                                                         *)
(* Each page is a component of its own: it is checked under its own        *)
(* specification (SpecDD, SpecDash, SpecSD, SpecFn, SpecAuth), in which    *)
(* the variables of the other components keep their initial value.         *)
(***************************************************************************)
EXTENDS Integers, Sequences, FiniteSets, TLC

VARIABLES
    \* DeviceDashboard.tsx
    ddDevice,        \* device state: "null" until GET /api/devices/:id resolves
    ddLoading,       \* loading state
    ddSensorData,    \* sensorData state: sensor type -> list of readings (a JS object: absent keys are undefined)
    ddSummaries,     \* summaries state: sensor type -> summary
    ddListening,     \* the 'new-sensor-data' listener of the real-time effect is registered
    ddEvents,        \* number of socket events delivered so far
    ddLast,          \* what the last step did to the page: "none", "load", "applied", "ignored"
    ddDelivered,     \* the readings the listener was called with, for this device and
                     \* one of its sensor types
    \* Dashboard.tsx
    recentData,      \* recentData state
    dashLoaded,      \* the initial fetch has resolved (projects set, listener registered)
    dashEvents,
    dashLast,
    \* SensorData.tsx
    sdSelectedDevice,
    sdSelectedSensorType,
    sdSensorData,    \* sensorData state
    sdLoading,
    sdThresholds,    \* thresholds state: Null or the threshold in use
    sdInFlight,      \* sensor types of the GET /api/sensor-data requests not yet resolved
    sdChartRefs,     \* chartRefs.current: sensor type -> Null or the chart's data {labels, datasets}
    sdRenderPending, \* a state update is queued and the page has not re-rendered yet
    sdEvents,
    sdSelections,    \* number of selection changes so far
    sdLast,
    \* getAlertLevel / formatChartData applied to drawn inputs
    fnReadings,
    fnThreshold,
    fnSensorType,
    fnOut,
    \* AuthContext.tsx, axiosConfig.ts, App.tsx, routing guards
    user,            \* AuthProvider user state: Null or the user
    loading,         \* AuthProvider loading state
    storedUser,      \* localStorage item 'user': Null or the JSON text of a user
    location,        \* the router's location
    rendered,        \* what the route table renders at location: a page or "Loading"
    redirects,       \* the targets of the <Navigate> elements rendered in the last step
    guardOut,        \* what each route guard renders for the current user and loading
    reloading,       \* window.location.href = '/login' was assigned: the document is being replaced
    requests,        \* requests sent through axiosInstance and not yet answered
    nextRequest,     \* requests sent since the document was loaded
    clears,          \* request -> times the response interceptor cleared the session for it
    lastResponse,    \* the response handled in the last step, Null if none
    session,         \* what last happened to the stored session: "found" at the first load,
                     \* "loggedIn" after a successful login, "cleared" after a logout or a handled 401
    authLast,        \* what the last step was
    \* the Dashboard that retries its load (second component of AuthContext.tsx)
    rdRetryCount,    \* retryCount state
    rdLoading,       \* loading state
    rdError,         \* error state is set
    rdInFlight,      \* captured retryCount -> fetches started with it and not settled
    rdTimers,        \* setTimeout callbacks scheduled and not yet run
    rdDelays,        \* the delays of the timers scheduled so far, in ms
    rdFetches,       \* fetches started so far
    rdResolved,      \* fetches that succeeded so far
    rdToasts,        \* 'after multiple attempts' toasts shown so far
    rdClicks,        \* clicks on Retry so far
    rdLast,          \* what the last step was
    \* SensorData.tsx: the project and device filters and the socket rooms
    sjUrlDevice,       \* deviceIdFromUrl, "" when the route has no :id
    sjProjects,        \* projects state
    sjDevices,         \* devices state
    sjSelectedProject, \* selectedProject state
    sjSelectedDevice,  \* selectedDevice state
    sjFetching,        \* projects whose fetchDevices request is not yet answered
    sjJoined,          \* project ids emitted with join-project on the socket
    sjPicks,           \* choices the user made in the dropdowns so far
    sjLast,            \* what the last step was
    \* SensorData.tsx: fetchThresholds
    stBackend,         \* the thresholds the threshold service holds, by level
    stSelection,       \* selectedDevice and selectedSensorType, both "" before the first choice
    stThresholds,      \* thresholds state: Null or the threshold that was set
    stInFlight,        \* selections whose fetchThresholds has not settled
    stPicks,           \* changes of the selection so far
    stLast             \* what the last step was

ddVars   == <<ddDevice, ddLoading, ddSensorData, ddSummaries, ddListening, ddEvents, ddLast,
              ddDelivered>>
dashVars == <<recentData, dashLoaded, dashEvents, dashLast>>
sdVars   == <<sdSelectedDevice, sdSelectedSensorType, sdSensorData, sdLoading, sdThresholds,
             sdInFlight, sdChartRefs, sdRenderPending, sdEvents, sdSelections, sdLast>>
fnVars   == <<fnReadings, fnThreshold, fnSensorType, fnOut>>
authVars == <<user, loading, storedUser, location, rendered, redirects, guardOut, reloading,
              requests, nextRequest, clears, lastResponse, session,
              authLast>>
rdVars   == <<rdRetryCount, rdLoading, rdError, rdInFlight, rdTimers, rdDelays, rdFetches,
              rdResolved, rdToasts, rdClicks, rdLast>>
sjVars   == <<sjUrlDevice, sjProjects, sjDevices, sjSelectedProject, sjSelectedDevice,
              sjFetching, sjJoined, sjPicks, sjLast>>
stVars   == <<stBackend, stSelection, stThresholds, stInFlight, stPicks, stLast>>
vars     == <<ddVars, dashVars, sdVars, fnVars, authVars, rdVars, sjVars, stVars>>

-----------------------------------------------------------------------------
(* Bounds of the model *)

\* socket events delivered to one page in one behaviour
MaxEvents == 2

\* inputs the SensorData page receives in one behaviour: changes of the selection
\* and socket events together
MaxInputs == 2

\* requests sent through axiosInstance between two loads of the document
MaxRequests == 2

\* fetches the retrying Dashboard starts in one behaviour
MaxFetches == 6

\* clicks on the Retry button in one behaviour
MaxClicks == 2

\* choices the user makes in the project and device dropdowns in one behaviour
MaxPicks == 2

\* the greatest reading value drawn for getAlertLevel
MaxValue == 4

\* the longest list of readings drawn for formatChartData
MaxReadings == 2

-----------------------------------------------------------------------------
(* JavaScript values *)

\* null / undefined where an object or a number may stand, and a number in such a place
Null   == [ null |-> TRUE ]
Num(v) == [ num |-> v ]

-----------------------------------------------------------------------------
(* Readings *)

DeviceId      == "d1"          \* the displayed / selected device
OtherDeviceId == "d2"

\* newReading.device is the device id or a populated device object {_id, ...}
DeviceRefs == { [isObject |-> FALSE, id |-> DeviceId],
                [isObject |-> TRUE,  id |-> DeviceId],
                [isObject |-> FALSE, id |-> OtherDeviceId] }

\* timestamps, as the milliseconds new Date(timestamp).getTime() gives
Timestamps == 0 .. 2

\* SENSOR_CONFIG: sensor type -> chart type
SENSOR_CONFIG ==
    [ temperature |-> "line", pH |-> "line", dissolvedOxygen |-> "line",
      conductivity |-> "line", turbidity |-> "bar", orp |-> "line", tds |-> "line" ]

\* the sensor types of the displayed device, and one it does not have
DeviceSensorTypes == <<"temperature", "turbidity">>
EventSensorTypes  == {"temperature", "turbidity", "pH"}

\* alertLevel is optional: "none" stands for undefined
AlertLevels == {"none", "normal", "warning", "critical"}

\* (value, isAlert, alertLevel) as the backend stamps them on a reading
Stamps == { [value |-> 1, isAlert |-> FALSE, alertLevel |-> "none"],
            [value |-> 7, isAlert |-> TRUE,  alertLevel |-> "critical"] }

Reading(dev, st, ts, stamp) ==
    [ device |-> dev, sensorType |-> st, timestamp |-> ts,
      value |-> stamp.value, isAlert |-> stamp.isAlert, alertLevel |-> stamp.alertLevel ]

\* the readings the socket may deliver
EventReadings ==
    { Reading(dev, st, ts, stamp) :
        dev \in DeviceRefs, st \in EventSensorTypes, ts \in {0, 2}, stamp \in Stamps }

\* the i-th reading of a server response for (device, sensor type): the server's
\* order is not the client's to choose, so the list is not sorted by timestamp
ServerReading(dev, st, i) ==
    Reading([isObject |-> FALSE, id |-> dev], st, (i * 2) % 3,
            IF i % 4 = 0 THEN [value |-> 7, isAlert |-> TRUE, alertLevel |-> "critical"]
            ELSE IF i % 4 = 1 THEN [value |-> 4, isAlert |-> TRUE, alertLevel |-> "warning"]
            ELSE IF i % 4 = 2 THEN [value |-> 2, isAlert |-> FALSE, alertLevel |-> "normal"]
            ELSE [value |-> 1, isAlert |-> FALSE, alertLevel |-> "none"])

ServerReadings(dev, st, n) == [ i \in 1 .. n |-> ServerReading(dev, st, i) ]

\* Array.prototype.sort((a, b) => time(a) - time(b)) is a stable sort by timestamp:
\* the elements of each timestamp keep their order, timestamps ascend
RECURSIVE SortFrom(_, _)
SortFrom(s, ts) ==
    IF ts \notin Timestamps THEN << >>
    ELSE SelectSeq(s, LAMBDA r : r.timestamp = ts) \o SortFrom(s, ts + 1)

\* sort that leaves the array as it was given
SortByTimestamp_AsGiven(s) == s

SortByTimestamp(s) == SortFrom(s, 0)

\* Array.prototype.shift(): drop the first element
Shift(s) == IF Len(s) = 0 THEN s ELSE SubSeq(s, 2, Len(s))

\* Array.prototype.slice(-n): the last n elements
SliceLast(s, n) == IF Len(s) <= n THEN s ELSE SubSeq(s, Len(s) - n + 1, Len(s))

SeqMin(s) == CHOOSE m \in { s[i] : i \in 1 .. Len(s) } : \A j \in 1 .. Len(s) : m <= s[j]
SeqMax(s) == CHOOSE m \in { s[i] : i \in 1 .. Len(s) } : \A j \in 1 .. Len(s) : m >= s[j]
RECURSIVE SeqSum(_)
SeqSum(s) == IF Len(s) = 0 THEN 0 ELSE s[1] + SeqSum(Tail(s))

-----------------------------------------------------------------------------
(* DeviceDashboard.tsx *)

\* "Only keep the last 100 readings"
DD_MAX_READINGS == 100

\* lengths of the per-sensor-type responses of the initial load: the request
\* carries limit: 100, and the server answers with at most that many readings
DD_LoadLengths == {0, 1, DD_MAX_READINGS - 1, DD_MAX_READINGS}

\* parseFloat(x.toFixed(2)) of the mean, kept in hundredths
DD_Average(values) == (200 * SeqSum(values) + Len(values)) \div (2 * Len(values))

\* the summary of a non-empty list of readings, or the default empty summary
DD_Summary(readings) ==
    IF Len(readings) > 0 THEN
        LET values == [ i \in 1 .. Len(readings) |-> readings[i].value ]
        IN  [ total         |-> Len(readings),
              average       |-> DD_Average(values),
              min           |-> SeqMin(values),
              max           |-> SeqMax(values),
              normalCount   |-> Len(SelectSeq(readings,
                                    LAMBDA r : r.alertLevel = "normal" \/ ~r.isAlert)),
              warningCount  |-> Len(SelectSeq(readings, LAMBDA r : r.alertLevel = "warning")),
              criticalCount |-> Len(SelectSeq(readings, LAMBDA r : r.alertLevel = "critical")) ]
    ELSE
        [ total |-> 0, average |-> 0, min |-> 0, max |-> 0,
          normalCount |-> 0, warningCount |-> 0, criticalCount |-> 0 ]

\* the new reading is for this device
DD_ForThisDevice(newReading) == newReading.device.id = DeviceId

\* DD_UpdatedReadings without "Only keep the last 100 readings"
DD_UpdatedReadings_NoShift(prev, newReading) == SortByTimestamp(Append(prev, newReading))

\* the list kept for a sensor type once the new reading is added
DD_UpdatedReadings(prev, newReading) ==
    LET sorted == SortByTimestamp(Append(prev, newReading))
    IN  IF Len(sorted) > DD_MAX_READINGS THEN Shift(sorted) ELSE sorted

DD_Init ==
    /\ ddDevice = "null"
    /\ ddLoading = TRUE
    /\ ddSensorData = << >>
    /\ ddSummaries = << >>
    /\ ddListening = FALSE
    /\ ddEvents = 0
    /\ ddLast = "none"
    /\ ddDelivered = {}

\* fetchData: GET /api/devices/:id resolved, setDevice; the real-time effect
\* then runs with a device and registers handleNewSensorData
DD_DeviceLoaded ==
    /\ ddDevice = "null"
    /\ ddLoading
    /\ ddDevice' = DeviceId
    /\ ddListening' = TRUE
    /\ ddLast' = "device"
    /\ UNCHANGED <<ddLoading, ddSensorData, ddSummaries, ddEvents, ddDelivered>>

\* fetchData: every per-sensor-type request resolved; setSensorData, setSummaries
DD_FetchComplete ==
    /\ ddDevice # "null"
    /\ ddLoading
    /\ \E n1 \in DD_LoadLengths, n2 \in DD_LoadLengths :
         LET all == [ st \in { DeviceSensorTypes[i] : i \in 1 .. Len(DeviceSensorTypes) } |->
                        ServerReadings(DeviceId, st,
                                       IF st = DeviceSensorTypes[1] THEN n1 ELSE n2) ]
         IN  /\ ddSensorData' = all
             /\ ddSummaries' = [ st \in DOMAIN all |-> DD_Summary(all[st]) ]
    /\ ddLoading' = FALSE
    /\ ddLast' = "load"
    /\ UNCHANGED <<ddDevice, ddListening, ddEvents, ddDelivered>>

\* fetchData: a request failed; catch shows a toast, finally setLoading(false)
DD_FetchFailed ==
    /\ ddLoading
    /\ ddLoading' = FALSE
    /\ ddLast' = "failed"
    /\ UNCHANGED <<ddDevice, ddSensorData, ddSummaries, ddListening, ddEvents, ddDelivered>>

\* handleNewSensorData
DD_handleNewSensorData(newReading) ==
    /\ ddListening
    /\ ddEvents < MaxEvents
    /\ ddEvents' = ddEvents + 1
    /\ IF DD_ForThisDevice(newReading) /\ newReading.sensorType \in DOMAIN ddSensorData
       THEN LET sensorType == newReading.sensorType
                updatedReadings == DD_UpdatedReadings(ddSensorData[sensorType], newReading)
            IN  /\ ddSensorData' = [ddSensorData EXCEPT ![sensorType] = updatedReadings]
                /\ ddSummaries' =
                      [ st \in DOMAIN ddSummaries \cup {sensorType} |->
                          IF st = sensorType THEN DD_Summary(updatedReadings)
                          ELSE ddSummaries[st] ]
                /\ ddLast' = "applied"
       ELSE /\ UNCHANGED <<ddSensorData, ddSummaries>>
            /\ ddLast' = "ignored"
    /\ ddDelivered' =
          IF /\ DD_ForThisDevice(newReading)
             /\ \E i \in 1 .. Len(DeviceSensorTypes) : DeviceSensorTypes[i] = newReading.sensorType
          THEN ddDelivered \cup {newReading} ELSE ddDelivered
    /\ UNCHANGED <<ddDevice, ddLoading, ddListening>>

DD_NewSensorData == \E newReading \in EventReadings : DD_handleNewSensorData(newReading)

-----------------------------------------------------------------------------
(* Dashboard.tsx (the main Dashboard page) *)

\* "Keep last 50 readings"
DASH_MAX_RECENT == 50

\* a reading as the Dashboard page holds it: device is the device id
DashReading(dev, st, ts, v) ==
    [ device |-> dev, sensorType |-> st, timestamp |-> ts, value |-> v, isAlert |-> v > 5 ]

DashEventReadings ==
    { DashReading(dev, st, ts, v) :
        dev \in {DeviceId, OtherDeviceId}, st \in EventSensorTypes, ts \in {1, 2}, v \in {7} }

\* GET /api/sensor-data/recent: the server decides how many readings it returns
Dash_LoadLengths == {0, 2, DASH_MAX_RECENT - 1, DASH_MAX_RECENT, DASH_MAX_RECENT + 1, DASH_MAX_RECENT + 10}

Dash_ServerRecent(n) ==
    [ i \in 1 .. n |->
        DashReading(IF i % 3 = 0 THEN DeviceId ELSE OtherDeviceId,
                    IF i % 2 = 0 THEN "temperature" ELSE "turbidity",
                    0, i % 5) ]

\* Dash_Filtered that drops every reading of the event's device
Dash_Filtered_ByDevice(prev, data) ==
    SelectSeq(prev, LAMBDA item : ~(item.device = data.device))

\* prev.filter(item => !(item.device === data.device && item.sensorType === data.sensorType))
Dash_Filtered(prev, data) ==
    SelectSeq(prev, LAMBDA item :
        ~(item.device = data.device /\ item.sensorType = data.sensorType))

\* Dash_Updated with the slice taken before the new reading is added
Dash_Updated_SliceFirst(prev, data) ==
    Append(SliceLast(Dash_Filtered(prev, data), DASH_MAX_RECENT), data)

\* the setRecentData updater of the 'new-sensor-data' listener
Dash_Updated(prev, data) == SliceLast(Append(Dash_Filtered(prev, data), data), DASH_MAX_RECENT)

Dash_Init ==
    /\ recentData = << >>
    /\ dashLoaded = "none"
    /\ dashEvents = 0
    /\ dashLast = "none"

\* fetchData: GET /api/projects/my-projects resolved with at least one project;
\* the subscription effect joins the project rooms and registers the listener
Dash_ProjectsLoaded ==
    /\ dashLoaded = "none"
    /\ dashLoaded' = "projects"
    /\ dashLast' = "projects"
    /\ UNCHANGED <<recentData, dashEvents>>

\* fetchData: GET /api/sensor-data/recent resolved, setRecentData(dataRes.data)
Dash_RecentLoaded ==
    /\ dashLoaded = "projects"
    /\ \E n \in Dash_LoadLengths : recentData' = Dash_ServerRecent(n)
    /\ dashLoaded' = "data"
    /\ dashLast' = "load"
    /\ UNCHANGED dashEvents

\* socket.on('new-sensor-data', data => setRecentData(prev => ...))
Dash_handleNewSensorData(data) ==
    /\ dashLoaded # "none"
    /\ dashEvents < MaxEvents
    /\ dashEvents' = dashEvents + 1
    /\ recentData' = Dash_Updated(recentData, data)
    /\ dashLast' = "applied"
    /\ UNCHANGED dashLoaded

Dash_NewSensorData == \E data \in DashEventReadings : Dash_handleNewSensorData(data)

-----------------------------------------------------------------------------
(* Threshold classification and chart formatting (DeviceDashboard.tsx, SensorData.tsx) *)

\* SENSOR_CONFIG[sensorType] || { chartType: 'line', ... }
ChartType(sensorType) ==
    IF sensorType \in DOMAIN SENSOR_CONFIG THEN SENSOR_CONFIG[sensorType] ELSE "line"

\* date.toLocaleTimeString([], { hour: '2-digit', minute: '2-digit' }): the label
\* keeps the minute only (two timestamp units to the minute here)
TimeLabel(ts) == ts \div 2

\* Number(reading.value), 0 when it is NaN; values are numbers here
ChartValue(reading) == reading.value

\* DD_getAlertLevel with the critical range closed (<=, >=) instead of open
DD_getAlertLevel_Closed(reading, threshold) ==
    IF threshold # Null THEN
        LET value == reading.value
        IN  IF value <= threshold.criticalMin \/ value >= threshold.criticalMax THEN "critical"
            ELSE IF value < threshold.warningMin \/ value > threshold.warningMax THEN "warning"
            ELSE "normal"
    ELSE IF reading.alertLevel = "none" THEN "normal" ELSE reading.alertLevel

\* getAlertLevel of DeviceDashboard.formatChartData; threshold is thresholds[sensorType]
DD_getAlertLevel(reading, threshold) ==
    IF threshold # Null THEN
        LET value == reading.value
        IN  IF value < threshold.criticalMin \/ value > threshold.criticalMax THEN "critical"
            ELSE IF value < threshold.warningMin \/ value > threshold.warningMax THEN "warning"
            ELSE "normal"
    ELSE IF reading.alertLevel = "none" THEN "normal" ELSE reading.alertLevel

\* getAlertLevel of SensorData.formatChartData; thresholds is the thresholds state
SD_getAlertLevel(reading, thresholds) ==
    IF thresholds # Null THEN
        LET value == reading.value
        IN  IF value < thresholds.criticalMin \/ value > thresholds.criticalMax THEN "critical"
            ELSE IF value < thresholds.warningMin \/ value > thresholds.warningMax THEN "warning"
            ELSE "normal"
    ELSE IF reading.alertLevel = "none" THEN "normal" ELSE reading.alertLevel

NoDataChart == [ labels |-> << >>, datasets |-> << [label |-> "No data", data |-> << >>] >> ]

\* values.map((value, index) => getAlertLevel(sortedData[index]) === level ? value : null)
DD_Segment(sortedData, threshold, level) ==
    [ i \in 1 .. Len(sortedData) |->
        IF DD_getAlertLevel(sortedData[i], threshold) = level
        THEN Num(ChartValue(sortedData[i])) ELSE Null ]

\* SD_Segment with the Warning segment taking every reading that is not normal
SD_Segment_NotNormal(sortedData, thresholds, level) ==
    [ i \in 1 .. Len(sortedData) |->
        IF \/ SD_getAlertLevel(sortedData[i], thresholds) = level
           \/ level = "warning" /\ SD_getAlertLevel(sortedData[i], thresholds) # "normal"
        THEN Num(ChartValue(sortedData[i])) ELSE Null ]

SD_Segment(sortedData, thresholds, level) ==
    [ i \in 1 .. Len(sortedData) |->
        IF SD_getAlertLevel(sortedData[i], thresholds) = level
        THEN Num(ChartValue(sortedData[i])) ELSE Null ]

\* DeviceDashboard.formatChartData(sensorType), readings = sensorData[sensorType] || []
DD_formatChartData(readings, threshold, sensorType) ==
    IF Len(readings) = 0 THEN NoDataChart
    ELSE
        LET sortedData == SortByTimestamp(readings)
            labels == [ i \in 1 .. Len(sortedData) |-> TimeLabel(sortedData[i].timestamp) ]
        IN  IF ChartType(sensorType) = "line" THEN
                [ labels |-> labels,
                  datasets |-> <<
                    [label |-> "Normal",   data |-> DD_Segment(sortedData, threshold, "normal")],
                    [label |-> "Warning",  data |-> DD_Segment(sortedData, threshold, "warning")],
                    [label |-> "Critical", data |-> DD_Segment(sortedData, threshold, "critical")] >> ]
            ELSE
                [ labels |-> labels,
                  datasets |-> <<
                    [label |-> sensorType,
                     data |-> [ i \in 1 .. Len(sortedData) |-> Num(ChartValue(sortedData[i])) ],
                     borderColor |-> [ i \in 1 .. Len(sortedData) |->
                                         DD_getAlertLevel(sortedData[i], threshold) ]] >> ]

\* SensorData.formatChartData()
SD_formatChartData(sensorData, selectedSensorType, thresholds) ==
    IF selectedSensorType = "" \/ Len(sensorData) = 0 THEN NoDataChart
    ELSE
        LET sortedData == SortByTimestamp(sensorData)
            labels == [ i \in 1 .. Len(sortedData) |-> TimeLabel(sortedData[i].timestamp) ]
        IN  IF ChartType(selectedSensorType) = "line" THEN
                [ labels |-> labels,
                  datasets |-> <<
                    [label |-> "Normal",   data |-> SD_Segment(sortedData, thresholds, "normal")],
                    [label |-> "Warning",  data |-> SD_Segment(sortedData, thresholds, "warning")],
                    [label |-> "Critical", data |-> SD_Segment(sortedData, thresholds, "critical")] >> ]
            ELSE
                [ labels |-> labels,
                  datasets |-> <<
                    [label |-> selectedSensorType,
                     data |-> [ i \in 1 .. Len(sortedData) |-> Num(ChartValue(sortedData[i])) ],
                     borderColor |-> [ i \in 1 .. Len(sortedData) |->
                                         SD_getAlertLevel(sortedData[i], thresholds) ]] >> ]

-----------------------------------------------------------------------------
(* SensorData.tsx *)

\* fetchSensorData asks for at most this many readings: limit: 1000
SD_FETCH_LIMIT == 1000

\* "Limit the visible data points to keep the chart readable"
SD_CHART_MAX_POINTS == 100

\* lengths of the responses to GET /api/sensor-data
SD_LoadLengths == {0, 1, SD_CHART_MAX_POINTS, SD_FETCH_LIMIT}

\* the threshold the threshold service may return for the selection
SD_ThresholdChoices ==
    { [criticalMin |-> 0, warningMin |-> 2, warningMax |-> 5, criticalMax |-> 6] }

SD_SensorTypes == { DeviceSensorTypes[i] : i \in 1 .. Len(DeviceSensorTypes) }

\* SD_Matches that does not look at the device of the reading
SD_Matches_AnyDevice(newReading, selectedDevice, selectedSensorType) ==
    newReading.sensorType = selectedSensorType

\* the new reading is for the currently selected device and sensor type
SD_Matches(newReading, selectedDevice, selectedSensorType) ==
    /\ newReading.device.id = selectedDevice
    /\ newReading.sensorType = selectedSensorType

\* the setSensorData updater of handleNewSensorData
SD_UpdatedData(prevData, newReading) == SortByTimestamp(Append(prevData, newReading))

\* the direct update of the chart behind chartRefs.current[selectedSensorType]
SD_ChartPush(chart, newReading) ==
    LET labels == Append(chart.labels, TimeLabel(newReading.timestamp))
        first  == [chart.datasets[1] EXCEPT !.data = Append(@, Num(newReading.value))]
    IN  IF Len(labels) > SD_CHART_MAX_POINTS
        THEN [ labels   |-> Shift(labels),
               datasets |-> [chart.datasets EXCEPT ![1] = [first EXCEPT !.data = Shift(@)]] ]
        ELSE [ labels   |-> labels,
               datasets |-> [chart.datasets EXCEPT ![1] = first] ]

\* renderChart: a chart is mounted (and its ref stored) only when the page is not
\* loading, a sensor type is selected and there are readings; setChartRef ignores
\* the null ref of an unmount, so the stored ref stays
SD_RenderedRefs(refs, data, selectedSensorType, isLoading, thresholds) ==
    IF isLoading \/ selectedSensorType = "" \/ Len(data) = 0 THEN refs
    ELSE [refs EXCEPT ![selectedSensorType] =
                SD_formatChartData(data, selectedSensorType, thresholds)]

SD_Init ==
    /\ sdSelectedDevice = ""
    /\ sdSelectedSensorType = ""
    /\ sdSensorData = << >>
    /\ sdLoading = TRUE
    /\ sdThresholds = Null
    /\ sdInFlight = {}
    /\ sdChartRefs = [ st \in SD_SensorTypes |-> Null ]
    /\ sdRenderPending = FALSE
    /\ sdEvents = 0
    /\ sdSelections = 0
    /\ sdLast = "none"

\* the device and a sensor type become selected (fetchInitialData and the
\* sensor-type effect, or the user's choice in the dropdown); the fetch effect
\* calls fetchSensorData, which sets loading and sends the request
SD_SelectSensorType(st) ==
    /\ st # sdSelectedSensorType
    /\ sdSelections + sdEvents < MaxInputs
    /\ sdSelections' = sdSelections + 1
    /\ sdSelectedDevice' = DeviceId
    /\ sdSelectedSensorType' = st
    /\ sdLoading' = TRUE
    /\ sdInFlight' = sdInFlight \cup {st}
    /\ sdRenderPending' = FALSE
    /\ sdLast' = "select"
    /\ UNCHANGED <<sdSensorData, sdThresholds, sdChartRefs, sdEvents>>

\* fetchSensorData: the response arrived; setSensorData(data), setLoading(false)
SD_FetchResolved(st, n) ==
    /\ st \in sdInFlight
    /\ sdInFlight' = sdInFlight \ {st}
    /\ sdSensorData' = ServerReadings(DeviceId, st, n)
    /\ sdLoading' = FALSE
    /\ sdChartRefs' = SD_RenderedRefs(sdChartRefs, sdSensorData', sdSelectedSensorType,
                                      FALSE, sdThresholds)
    /\ sdRenderPending' = FALSE
    /\ sdLast' = "load"
    /\ UNCHANGED <<sdSelectedDevice, sdSelectedSensorType, sdThresholds, sdEvents, sdSelections>>

\* fetchSensorData: the request failed; setSensorData([]), setLoading(false)
SD_FetchFailed(st) ==
    /\ st \in sdInFlight
    /\ sdInFlight' = sdInFlight \ {st}
    /\ sdSensorData' = << >>
    /\ sdLoading' = FALSE
    /\ sdRenderPending' = FALSE
    /\ sdLast' = "failed"
    /\ UNCHANGED <<sdSelectedDevice, sdSelectedSensorType, sdThresholds, sdChartRefs, sdEvents, sdSelections>>

\* fetchThresholds: a threshold for the selection was found; setThresholds
SD_ThresholdsLoaded(t) ==
    /\ sdSelectedSensorType # ""
    /\ sdThresholds # t
    /\ sdThresholds' = t
    /\ sdChartRefs' = SD_RenderedRefs(sdChartRefs, sdSensorData, sdSelectedSensorType,
                                      sdLoading, t)
    /\ sdRenderPending' = FALSE
    /\ sdLast' = "thresholds"
    /\ UNCHANGED <<sdSelectedDevice, sdSelectedSensorType, sdSensorData, sdLoading,
                   sdInFlight, sdEvents, sdSelections>>

\* handleNewSensorData. syncRender: the state update is rendered inside
\* setSensorData (a legacy root outside a React event handler) so the chart is
\* remounted before the direct update; otherwise the render follows the handler
SD_handleNewSensorData(newReading, syncRender) ==
    /\ sdSelections + sdEvents < MaxInputs
    /\ sdEvents' = sdEvents + 1
    /\ IF SD_Matches(newReading, sdSelectedDevice, sdSelectedSensorType)
       THEN LET updatedData == SD_UpdatedData(sdSensorData, newReading)
                refs == IF syncRender
                        THEN SD_RenderedRefs(sdChartRefs, updatedData, sdSelectedSensorType,
                                             sdLoading, sdThresholds)
                        ELSE sdChartRefs
            IN  /\ sdSensorData' = updatedData
                /\ sdChartRefs' =
                      IF refs[sdSelectedSensorType] # Null
                      THEN [refs EXCEPT ![sdSelectedSensorType] = SD_ChartPush(@, newReading)]
                      ELSE refs
                /\ sdRenderPending' = ~syncRender
                /\ sdLast' = "applied"
       ELSE /\ UNCHANGED <<sdSensorData, sdChartRefs, sdRenderPending>>
            /\ sdLast' = "ignored"
    /\ UNCHANGED <<sdSelectedDevice, sdSelectedSensorType, sdLoading, sdThresholds,
                   sdInFlight, sdSelections>>

\* the render that follows a queued state update
SD_Render ==
    /\ sdRenderPending
    /\ sdRenderPending' = FALSE
    /\ sdChartRefs' = SD_RenderedRefs(sdChartRefs, sdSensorData, sdSelectedSensorType,
                                      sdLoading, sdThresholds)
    /\ sdLast' = "render"
    /\ UNCHANGED <<sdSelectedDevice, sdSelectedSensorType, sdSensorData, sdLoading,
                   sdThresholds, sdInFlight, sdEvents, sdSelections>>

SD_Select      == \E st \in SD_SensorTypes : SD_SelectSensorType(st)
SD_Resolved    == \E st \in SD_SensorTypes, n \in SD_LoadLengths : SD_FetchResolved(st, n)
SD_Failed      == \E st \in SD_SensorTypes : SD_FetchFailed(st)
SD_Thresholds  == \E t \in SD_ThresholdChoices : SD_ThresholdsLoaded(t)
SD_NewSensorData ==
    \E newReading \in EventReadings :
        IF SD_Matches(newReading, sdSelectedDevice, sdSelectedSensorType)
        THEN \E syncRender \in BOOLEAN : SD_handleNewSensorData(newReading, syncRender)
        ELSE SD_handleNewSensorData(newReading, FALSE)

-----------------------------------------------------------------------------
(* getAlertLevel and formatChartData applied to drawn inputs *)

\* the thresholds a sensor type may have loaded: every bound is one of two numbers, so
\* that the ranges nest, touch, or cross
FnThresholds ==
    [ criticalMin : {1, 3}, warningMin : {1, 3}, warningMax : {1, 3}, criticalMax : {1, 3} ]

\* readings to classify: every value from below the least bound to above the greatest
FnReadings ==
    { Reading([isObject |-> FALSE, id |-> DeviceId], "temperature", 0,
              [value |-> v, isAlert |-> lvl \in {"warning", "critical"}, alertLevel |-> lvl]) :
        v \in 0 .. MaxValue, lvl \in AlertLevels }

\* readings to chart
FnChartReadings ==
    { Reading([isObject |-> FALSE, id |-> DeviceId], "temperature", ts,
              [value |-> v, isAlert |-> lvl \in {"warning", "critical"}, alertLevel |-> lvl]) :
        v \in {0, 2, MaxValue}, lvl \in {"none", "warning"}, ts \in {0, 2} }

FnChartThresholds ==
    { Null,
      [criticalMin |-> 1, warningMin |-> 1, warningMax |-> 3, criticalMax |-> 3],
      [criticalMin |-> 0, warningMin |-> 1, warningMax |-> 3, criticalMax |-> 5] }

RECURSIVE SeqsUpTo(_, _)
SeqsUpTo(S, n) ==
    IF n = 0 THEN { << >> }
    ELSE LET shorter == SeqsUpTo(S, n - 1)
         IN  shorter \cup { Append(s, x) : s \in { t \in shorter : Len(t) = n - 1 }, x \in S }

\* one reading and a threshold (or none) are drawn
Fn_InitLevel ==
    /\ fnReadings \in { <<r>> : r \in FnReadings }
    /\ fnThreshold \in FnThresholds \cup {Null}
    /\ fnSensorType = "temperature"
    /\ fnOut = Null

\* a list of readings, a sensor type (a line chart or a bar chart) and a threshold are drawn
Fn_InitChart ==
    /\ fnReadings \in SeqsUpTo(FnChartReadings, MaxReadings)
    /\ fnThreshold \in FnChartThresholds
    /\ fnSensorType \in {"temperature", "turbidity"}
    /\ fnOut = Null

\* getAlertLevel(reading) on both pages
Fn_Classify ==
    /\ fnOut = Null
    /\ fnOut' = [ ddLevel |-> DD_getAlertLevel(fnReadings[1], fnThreshold),
                  sdLevel |-> SD_getAlertLevel(fnReadings[1], fnThreshold) ]
    /\ UNCHANGED <<fnReadings, fnThreshold, fnSensorType>>

\* formatChartData on both pages
Fn_Format ==
    /\ fnOut = Null
    /\ fnOut' = [ ddChart |-> DD_formatChartData(fnReadings, fnThreshold, fnSensorType),
                  sdChart |-> SD_formatChartData(fnReadings, fnSensorType, fnThreshold) ]
    /\ UNCHANGED <<fnReadings, fnThreshold, fnSensorType>>

-----------------------------------------------------------------------------
(* AuthContext.tsx, routing guards, App.tsx *)

Roles == {"superadmin", "projectadmin", "user"}

\* the user records the backend answers a login with; the token may be missing
Tokens == {"jwt", ""}
Users == { [role |-> r, token |-> t] : r \in Roles, t \in Tokens }

\* JSON.stringify(userData) and JSON.parse(storedUser)
Stringify(u) == [ json |-> u ]
Parse(text)  == text.json

\* computed properties of the context value
isAuthenticated(u) == u # Null
isSuperAdmin(u)    == u # Null /\ u.role = "superadmin"
isAdmin(u)         == u # Null /\ (u.role = "superadmin" \/ u.role = "projectadmin")

Navigate(to) == [ navigate |-> to ]
Children     == [ children |-> TRUE ]
Placeholder  == [ placeholder |-> "Loading" ]
Page(name)   == [ page |-> name ]

\* ProtectedRoute of App.tsx
App_ProtectedRoute(u, isLoading) ==
    IF isLoading THEN Placeholder
    ELSE IF u = Null THEN Navigate("/login")
    ELSE Children

\* components/routing/ProtectedRoute.tsx
ProtectedRoute(u, isLoading) ==
    IF isLoading THEN Placeholder
    ELSE IF u = Null THEN Navigate("/login")
    ELSE Children

\* components/routing/PrivateRoute.tsx
PrivateRoute(u, isLoading) ==
    IF isLoading THEN Placeholder
    ELSE IF isAuthenticated(u) THEN Children ELSE Navigate("/login")

\* AdminRoute that lets every authenticated user through
AdminRoute_AnyUser(u, isLoading) ==
    IF isLoading THEN Placeholder
    ELSE IF ~isAuthenticated(u) THEN Navigate("/login")
    ELSE Children

\* components/routing/AdminRoute.tsx
AdminRoute(u, isLoading) ==
    IF isLoading THEN Placeholder
    ELSE IF ~isAuthenticated(u) THEN Navigate("/login")
    ELSE IF isAdmin(u) THEN Children ELSE Navigate("/")

\* components/routing/SuperAdminRoute.tsx
SuperAdminRoute(u, isLoading) ==
    IF isLoading THEN Placeholder
    ELSE IF ~isAuthenticated(u) THEN Navigate("/login")
    ELSE IF isSuperAdmin(u) THEN Children ELSE Navigate("/")

Guards == {"App.ProtectedRoute", "ProtectedRoute", "PrivateRoute", "AdminRoute", "SuperAdminRoute"}

Guard(g, u, isLoading) ==
    CASE g = "App.ProtectedRoute" -> App_ProtectedRoute(u, isLoading)
      [] g = "ProtectedRoute"     -> ProtectedRoute(u, isLoading)
      [] g = "PrivateRoute"       -> PrivateRoute(u, isLoading)
      [] g = "AdminRoute"         -> AdminRoute(u, isLoading)
      [] g = "SuperAdminRoute"    -> SuperAdminRoute(u, isLoading)

\* the child routes of "/" in App.tsx: the guard around the element ("none" for an
\* element that is not wrapped) and the page
ChildRoutes ==
    [ path \in { "/", "/projects", "/projects/:id", "/projects/:id/edit", "/projects/new",
                 "/devices", "/devices/:id", "/devices/:id/dashboard",
                 "/devices/:id/sensors/:sensorType", "/devices/:id/edit", "/devices/add",
                 "/users", "/sensor-data", "/register-user", "/profile", "/thresholds" } |->
        CASE path = "/"                    -> [guard |-> "none", page |-> "Dashboard"]
          [] path = "/projects"            -> [guard |-> "none", page |-> "Projects"]
          [] path = "/projects/:id"        -> [guard |-> "none", page |-> "ProjectDetails"]
          [] path = "/projects/:id/edit"   -> [guard |-> "none", page |-> "EditProject"]
          [] path = "/projects/new"        -> [guard |-> "SuperAdminRoute", page |-> "ProjectForm"]
          [] path = "/devices"             -> [guard |-> "none", page |-> "Devices"]
          [] path = "/devices/:id"         -> [guard |-> "none", page |-> "DeviceDetails"]
          [] path = "/devices/:id/dashboard" -> [guard |-> "none", page |-> "DeviceDashboard"]
          [] path = "/devices/:id/sensors/:sensorType" -> [guard |-> "none", page |-> "SensorData"]
          [] path = "/devices/:id/edit"    -> [guard |-> "AdminRoute", page |-> "DeviceForm"]
          [] path = "/devices/add"         -> [guard |-> "AdminRoute", page |-> "DeviceForm"]
          [] path = "/users"               -> [guard |-> "SuperAdminRoute", page |-> "UserManagement"]
          [] path = "/sensor-data"         -> [guard |-> "none", page |-> "SensorData"]
          [] path = "/register-user"       -> [guard |-> "SuperAdminRoute", page |-> "Register"]
          [] path = "/profile"             -> [guard |-> "none", page |-> "Profile"]
          [] path = "/thresholds"          -> [guard |-> "none", page |-> "ThresholdManagement"] ]

\* the element the route table of App.tsx renders at path
RouteElement(path, u, isLoading) ==
    IF path = "/login" THEN Page("Login")
    ELSE IF path = "/register" THEN Page("Register")
    ELSE LET outer == App_ProtectedRoute(u, isLoading)
         IN  IF outer # Children THEN outer
             ELSE IF path \notin DOMAIN ChildRoutes THEN Navigate("/")
             ELSE LET route == ChildRoutes[path]
                      inner == IF route.guard = "none" THEN Children
                               ELSE Guard(route.guard, u, isLoading)
                  IN  IF inner = Children THEN Page(route.page) ELSE inner

\* rendering at path, following the <Navigate> elements until a page or the
\* placeholder is shown
RECURSIVE Render(_, _, _, _)
Render(path, u, isLoading, followed) ==
    LET element == RouteElement(path, u, isLoading)
    IN  IF "navigate" \in DOMAIN element
        THEN Render(element.navigate, u, isLoading, Append(followed, element.navigate))
        ELSE [ location  |-> path,
               rendered  |-> IF "page" \in DOMAIN element THEN element.page ELSE "Loading",
               redirects |-> followed ]

GuardOutputs(u, isLoading) == [ g \in Guards |-> Guard(g, u, isLoading) ]

\* the paths a user opens: the create and edit routes, two routes open to every
\* user, the login page and a path no route matches
NavPaths == { "/login", "/", "/sensor-data", "/projects/new", "/projects/:id/edit",
              "/devices/add", "/devices/:id/edit", "/users", "/register-user", "/nowhere" }

\* the user the mount effect puts in the state, given the localStorage item
Mount_NoUser(stored) == Null

Mount_User(stored) == IF stored # Null THEN Parse(stored) ELSE Null

\* the page re-renders with the new user and loading
Auth_Rendered(path, u, isLoading) ==
    LET r == Render(path, u, isLoading, << >>)
    IN  /\ location' = r.location
        /\ rendered' = r.rendered
        /\ redirects' = r.redirects
        /\ guardOut' = GuardOutputs(u, isLoading)

\* the document is loaded at some path, with or without a saved user
Auth_Init ==
    /\ user = Null
    /\ loading = TRUE
    /\ storedUser \in { Stringify(u) : u \in Users } \cup {Null}
    /\ \E path \in NavPaths :
         LET r == Render(path, Null, TRUE, << >>)
         IN  location = r.location /\ rendered = r.rendered /\ redirects = r.redirects
    /\ guardOut = GuardOutputs(Null, TRUE)
    /\ reloading = FALSE
    /\ requests = {}
    /\ nextRequest = 1
    /\ clears = [ r \in {} |-> 0 ]
    /\ lastResponse = Null
    /\ session = "found"
    /\ authLast = "load"

\* AuthProvider mount effect: setUser(parsedUser) if a user is saved, setLoading(false)
Auth_MountEffect ==
    /\ loading
    /\ user' = Mount_User(storedUser)
    /\ loading' = FALSE
    /\ Auth_Rendered(location, user', FALSE)
    /\ lastResponse' = Null
    /\ authLast' = "mount"
    /\ UNCHANGED <<storedUser, reloading, requests, nextRequest, clears, session>>

\* the user opens a path (a link or the address bar of the running app)
Auth_Navigate(path) ==
    /\ ~loading
    /\ path # location
    /\ Auth_Rendered(path, user, loading)
    /\ lastResponse' = Null
    /\ authLast' = "navigate"
    /\ UNCHANGED <<user, loading, storedUser, reloading, requests, nextRequest, clears, session>>

-----------------------------------------------------------------------------
(* axiosConfig.ts and the requests of AuthContext.tsx *)

UNAUTHORIZED == 401

\* the statuses a response may carry: success, unauthorized, another failure
Statuses == {200, UNAUTHORIZED, 500}

\* RequestInterceptor that does not look whether the record has a token
RequestInterceptor_AnyRecord(stored) ==
    IF stored # Null THEN [ bearer |-> Parse(stored).token ] ELSE Null

\* request interceptor: the Authorization header put on the request, Null for none
RequestInterceptor(stored) ==
    IF stored # Null
    THEN LET token == Parse(stored).token
         IN  IF token # "" THEN [ bearer |-> token ] ELSE Null
    ELSE Null

\* ResponseError that never clears the session
ResponseError_NoClear(config, status) ==
    [ clear |-> FALSE, retry |-> config.retry, outcome |-> "rejected" ]

\* response interceptor, error branch: whether localStorage is cleared and the
\* browser sent to /login, the _retry flag of the request afterwards, and what the
\* caller's promise does
ResponseError(config, status) ==
    IF status = UNAUTHORIZED /\ ~config.retry
    THEN [ clear |-> TRUE,  retry |-> TRUE,         outcome |-> "rejected" ]
    ELSE [ clear |-> FALSE, retry |-> config.retry, outcome |-> "rejected" ]

\* response interceptor, success branch
ResponseOk(config) == [ clear |-> FALSE, retry |-> config.retry, outcome |-> "resolved" ]

\* axiosInstance.<method>(...): the request leaves with the interceptor's header
Auth_Send(kind) ==
    /\ ~loading
    /\ nextRequest <= MaxRequests
    /\ requests' = requests \cup
          { [ id |-> nextRequest, kind |-> kind, retry |-> FALSE,
              authorization |-> RequestInterceptor(storedUser) ] }
    /\ clears' = [ r \in DOMAIN clears \cup {nextRequest} |->
                     IF r = nextRequest THEN 0 ELSE clears[r] ]
    /\ nextRequest' = nextRequest + 1
    /\ lastResponse' = Null
    /\ redirects' = << >>
    /\ UNCHANGED <<user, loading, storedUser, location, rendered, guardOut, reloading, session>>

\* the Login page submits: login(email, password) posts /api/auth/login
Auth_LoginSubmit ==
    /\ rendered = "Login"
    /\ Auth_Send("login")
    /\ authLast' = "login"

\* DashboardLayout.handleLogout: logout() posts /api/auth/logout when a user is set
Auth_Logout ==
    /\ rendered \notin {"Loading", "Login"} /\ location # "/register"
    /\ user # Null
    /\ Auth_Send("logout")
    /\ authLast' = "logout"

\* a page under the layout loads its data through axiosInstance
Auth_DataRequest ==
    /\ rendered \notin {"Loading", "Login"} /\ location # "/register"
    /\ Auth_Send("data")
    /\ authLast' = "request"

\* the response to a request arrives: the response interceptor, then the caller
\* (login: setUser and localStorage.setItem on success, rethrow on failure;
\* logout: localStorage.removeItem and setUser(null) in finally, then
\* navigate('/login'); a page: nothing for the session)
Auth_Respond(req, status, userData) ==
    /\ req \in requests
    /\ LET handled == IF status = 200 THEN ResponseOk(req) ELSE ResponseError(req, status)
           cleared == IF handled.clear THEN Null ELSE storedUser
           newUser == CASE req.kind = "login" /\ handled.outcome = "resolved" -> userData
                        [] req.kind = "logout" -> Null
                        [] OTHER -> user
           newStored == CASE req.kind = "login" /\ handled.outcome = "resolved" -> Stringify(userData)
                          [] req.kind = "logout" -> Null
                          [] OTHER -> cleared
       IN  /\ user' = newUser
           /\ storedUser' = newStored
           /\ reloading' = (reloading \/ handled.clear)
           /\ session' = CASE req.kind = "login" /\ handled.outcome = "resolved" -> "loggedIn"
                            [] req.kind = "logout" \/ handled.clear -> "cleared"
                            [] OTHER -> session
           /\ clears' = [clears EXCEPT ![req.id] = IF handled.clear THEN @ + 1 ELSE @]
           /\ lastResponse' = [ id |-> req.id, kind |-> req.kind, status |-> status,
                                outcome |-> handled.outcome, retry |-> handled.retry ]
           /\ Auth_Rendered(IF req.kind = "logout" THEN "/login" ELSE location, newUser, loading)
    /\ requests' = requests \ {req}
    /\ authLast' = "response"
    /\ UNCHANGED <<loading, nextRequest>>

\* window.location.href = '/login' takes effect: the document is replaced, the app
\* starts again at /login and the requests of the old document are gone
Auth_Reload ==
    /\ reloading
    /\ reloading' = FALSE
    /\ user' = Null
    /\ loading' = TRUE
    /\ Auth_Rendered("/login", Null, TRUE)
    /\ requests' = {}
    /\ nextRequest' = 1
    /\ clears' = [ r \in {} |-> 0 ]
    /\ lastResponse' = Null
    /\ authLast' = "load"
    /\ UNCHANGED <<storedUser, session>>

Auth_Open     == \E path \in NavPaths : Auth_Navigate(path)
Auth_Response ==
    \E req \in requests, status \in Statuses, userData \in Users :
        Auth_Respond(req, status, userData)

-----------------------------------------------------------------------------
(* Dashboard with automatic retry (AuthContext.tsx, second component) *)

\* retries after which the load gives up, and the base of the backoff in ms
RD_MAX_RETRIES == 3
RD_BACKOFF_MS == 1000

RECURSIVE Pow2(_)
Pow2(n) == IF n = 0 THEN 1 ELSE 2 * Pow2(n - 1)

\* Math.pow(2, retryCount) * 1000
RD_Timeout(retryCount) == Pow2(retryCount) * RD_BACKOFF_MS

\* the retryCount values a fetch can have captured
RD_Counts == 0 .. (MaxFetches + 1)

RD_Init ==
    /\ rdRetryCount = 0
    /\ rdLoading = TRUE
    /\ rdError = FALSE
    /\ rdInFlight = [ c \in RD_Counts |-> 0 ]
    /\ rdTimers = 0
    /\ rdDelays = << >>
    /\ rdFetches = 0
    /\ rdResolved = 0
    /\ rdToasts = 0
    /\ rdClicks = 0
    /\ rdLast = "none"

\* the effect on [retryCount] runs fetchDashboardData with the retryCount of the
\* render: setLoading(true), setError(null), the three requests leave
RD_fetchDashboardData(retryCount) ==
    /\ rdLoading' = TRUE
    /\ rdError' = FALSE
    /\ rdInFlight' = [rdInFlight EXCEPT ![retryCount] = @ + 1]
    /\ rdFetches' = rdFetches + 1

\* setRetryCount(newCount): the effect runs again only when the value has changed
RD_SetRetryCount(newCount) ==
    /\ rdRetryCount' = newCount
    /\ IF newCount # rdRetryCount
       THEN RD_fetchDashboardData(newCount)
       ELSE UNCHANGED <<rdLoading, rdError, rdInFlight, rdFetches>>

\* the component mounts: the effect runs for the first time
RD_Mount ==
    /\ rdLast = "none"
    /\ RD_fetchDashboardData(rdRetryCount)
    /\ rdLast' = "mount"
    /\ UNCHANGED <<rdRetryCount, rdTimers, rdDelays, rdResolved, rdToasts, rdClicks>>

\* Promise.all resolves: the data is set and setLoading(false)
RD_FetchResolved(captured) ==
    /\ rdInFlight[captured] > 0
    /\ rdInFlight' = [rdInFlight EXCEPT ![captured] = @ - 1]
    /\ rdLoading' = FALSE
    /\ rdResolved' = rdResolved + 1
    /\ rdLast' = "resolved"
    /\ UNCHANGED <<rdRetryCount, rdError, rdTimers, rdDelays, rdFetches, rdToasts, rdClicks>>

\* the catch block that gives up one retry early
RD_Catch_OneRetryLess(captured) ==
    IF captured < RD_MAX_RETRIES - 1
    THEN /\ rdTimers' = rdTimers + 1
         /\ rdDelays' = Append(rdDelays, RD_Timeout(captured))
         /\ UNCHANGED rdToasts
    ELSE /\ rdToasts' = rdToasts + 1
         /\ UNCHANGED <<rdTimers, rdDelays>>

\* the catch block: a timer while the captured retryCount is below 3, else the toast
RD_Catch(captured) ==
    IF captured < RD_MAX_RETRIES
    THEN /\ rdTimers' = rdTimers + 1
         /\ rdDelays' = Append(rdDelays, RD_Timeout(captured))
         /\ UNCHANGED rdToasts
    ELSE /\ rdToasts' = rdToasts + 1
         /\ UNCHANGED <<rdTimers, rdDelays>>

\* Promise.all rejects: setError, setLoading(false), then the catch block
RD_FetchRejected(captured) ==
    /\ rdInFlight[captured] > 0
    /\ rdInFlight' = [rdInFlight EXCEPT ![captured] = @ - 1]
    /\ rdError' = TRUE
    /\ rdLoading' = FALSE
    /\ RD_Catch(captured)
    /\ rdLast' = "rejected"
    /\ UNCHANGED <<rdRetryCount, rdFetches, rdResolved, rdClicks>>

\* a timer runs: setRetryCount(prev => prev + 1)
RD_TimerFires ==
    /\ rdTimers > 0
    /\ rdFetches < MaxFetches
    /\ rdTimers' = rdTimers - 1
    /\ RD_SetRetryCount(rdRetryCount + 1)
    /\ rdLast' = "timer"
    /\ UNCHANGED <<rdDelays, rdResolved, rdToasts, rdClicks>>

\* the error screen is what the component renders
RD_ErrorScreen == ~rdLoading /\ rdError

\* the user clicks Retry on the error screen: handleRetry
RD_handleRetry ==
    /\ RD_ErrorScreen
    /\ rdClicks < MaxClicks
    /\ rdFetches < MaxFetches
    /\ rdClicks' = rdClicks + 1
    /\ RD_SetRetryCount(0)
    /\ rdLast' = "click"
    /\ UNCHANGED <<rdTimers, rdDelays, rdResolved, rdToasts>>

RD_Resolved == \E captured \in RD_Counts : RD_FetchResolved(captured)
RD_Rejected == \E captured \in RD_Counts : RD_FetchRejected(captured)

-----------------------------------------------------------------------------
(* SensorData.tsx: project and device filters, join-project *)

\* the projects and devices of the backend
Projects == {"p1", "p2"}
DevicesOf == [ p \in Projects |-> IF p = "p1" THEN <<"d1">> ELSE <<"d2", "d3">> ]
AllDevices == {"d1", "d2", "d3"}
DeviceProject(d) == IF d = "d1" THEN "p1" ELSE "p2"

\* the responses GET /api/projects may give
ProjectLists == { << >>, <<"p1", "p2">>, <<"p2", "p1">> }

\* the page is mounted, from a route with or without a device id
SJ_Start ==
    /\ sjUrlDevice \in AllDevices \cup {""}
    /\ sjProjects = << >>
    /\ sjDevices = << >>
    /\ sjSelectedProject = ""
    /\ sjSelectedDevice = ""
    /\ sjFetching = {}
    /\ sjJoined = {}
    /\ sjPicks = 0
    /\ sjLast = "none"

\* the page is not mounted
SJ_Init == SJ_Start /\ sjUrlDevice = ""

\* joinProjectRoom(projectId): socket.emit('join-project', projectId)
joinProjectRoom(joined, projectId) ==
    IF projectId # "" THEN joined \cup {projectId} ELSE joined

\* the effect on [selectedProject, deviceIdFromUrl], run after selectedProject became
\* project: nothing when there is no project or the device came from the URL, else
\* fetchDevices is started and the project room is joined
SJ_ProjectEffect(project) ==
    IF project = sjSelectedProject THEN UNCHANGED <<sjFetching, sjJoined>>
    ELSE IF project = "" \/ sjUrlDevice # "" THEN UNCHANGED <<sjFetching, sjJoined>>
    ELSE /\ sjFetching' = sjFetching \cup {project}
         /\ sjJoined' = joinProjectRoom(sjJoined, project)

\* fetchInitialData has run to its end: the projects are set, and with a device id
\* in the URL the device is fetched (outcome "ok"), or that fails ("noDevice"), or
\* the device is found and the device list of its project fails ("noDevices")
SJ_fetchInitialData(projects, outcome) ==
    /\ sjLast = "none"
    /\ LET first == IF Len(projects) > 0 THEN projects[1] ELSE sjSelectedProject
           found == sjUrlDevice # "" /\ outcome \in {"ok", "noDevices"}
           project == CASE sjUrlDevice = ""   -> first
                        [] outcome = "ok"     -> DeviceProject(sjUrlDevice)
                        [] outcome = "noDevices" ->
                              IF Len(projects) > 0 THEN projects[1]
                              ELSE DeviceProject(sjUrlDevice)
                        [] OTHER              -> first
       IN  /\ sjProjects' = projects
           /\ sjSelectedProject' = project
           /\ sjSelectedDevice' = IF found THEN sjUrlDevice ELSE sjSelectedDevice
           /\ sjDevices' = IF sjUrlDevice # "" /\ outcome = "ok"
                           THEN DevicesOf[DeviceProject(sjUrlDevice)] ELSE sjDevices
           /\ SJ_ProjectEffect(project)
    /\ sjLast' = "initial"
    /\ UNCHANGED <<sjUrlDevice, sjPicks>>

\* fetchDevices for project is answered: the device list is set and its first device
\* selected (none for an empty list); a failure changes nothing
SJ_fetchDevices(project, ok) ==
    /\ project \in sjFetching
    /\ sjFetching' = sjFetching \ {project}
    /\ IF ok
       THEN /\ sjDevices' = DevicesOf[project]
            /\ sjSelectedDevice' = IF Len(DevicesOf[project]) > 0 THEN DevicesOf[project][1] ELSE ""
       ELSE UNCHANGED <<sjDevices, sjSelectedDevice>>
    /\ sjLast' = "devices"
    /\ UNCHANGED <<sjUrlDevice, sjProjects, sjSelectedProject, sjJoined, sjPicks>>

\* the user picks a project in the dropdown: setSelectedProject, then the effect
SJ_SelectProject(project) ==
    /\ sjPicks < MaxPicks
    /\ \E i \in 1 .. Len(sjProjects) : sjProjects[i] = project
    /\ project # sjSelectedProject
    /\ sjSelectedProject' = project
    /\ SJ_ProjectEffect(project)
    /\ sjPicks' = sjPicks + 1
    /\ sjLast' = "project"
    /\ UNCHANGED <<sjUrlDevice, sjProjects, sjDevices, sjSelectedDevice>>

\* the user picks a device in the dropdown: setSelectedDevice
SJ_SelectDevice(device) ==
    /\ sjPicks < MaxPicks
    /\ \E i \in 1 .. Len(sjDevices) : sjDevices[i] = device
    /\ device # sjSelectedDevice
    /\ sjSelectedDevice' = device
    /\ sjPicks' = sjPicks + 1
    /\ sjLast' = "device"
    /\ UNCHANGED <<sjUrlDevice, sjProjects, sjDevices, sjSelectedProject, sjFetching, sjJoined>>

SJ_InitialData ==
    \E projects \in ProjectLists, outcome \in {"ok", "noDevice", "noDevices"} :
        SJ_fetchInitialData(projects, outcome)
SJ_Devices     == \E project \in Projects, ok \in BOOLEAN : SJ_fetchDevices(project, ok)
SJ_PickProject == \E project \in Projects : SJ_SelectProject(project)
SJ_PickDevice  == \E device \in AllDevices : SJ_SelectDevice(device)

-----------------------------------------------------------------------------
(* SensorData.tsx: fetchThresholds *)

ST_Devices == {"d1", "d2"}
ST_SensorTypes == {"temperature", "turbidity"}

\* a threshold of the threshold service: the level it is defined at, its sensor type
\* and, at device level, its device
ST_Threshold(level, device, sensorType) ==
    [ level |-> level, device |-> IF level = "device" THEN device ELSE "", sensorType |-> sensorType ]

ST_AllThresholds ==
    { ST_Threshold(level, d, st) :
        level \in {"device", "project", "default"}, d \in ST_Devices, st \in ST_SensorTypes }

\* deviceThresholds.find / projectThresholds.find / defaultThresholds.find
ST_Find(backend, level, device, sensorType) ==
    IF ST_Threshold(level, device, sensorType) \in backend
    THEN ST_Threshold(level, device, sensorType) ELSE Null

\* the threshold fetchThresholds passes to setThresholds, Null when it finds none
\* and does not call setThresholds
ST_Chosen(backend, device, sensorType) ==
    IF ST_Find(backend, "device", device, sensorType) # Null
    THEN ST_Find(backend, "device", device, sensorType)
    ELSE IF ST_Find(backend, "project", device, sensorType) # Null
    THEN ST_Find(backend, "project", device, sensorType)
    ELSE ST_Find(backend, "default", device, sensorType)

\* the page is mounted; the threshold service holds some thresholds
ST_Start ==
    /\ stBackend \in SUBSET ST_AllThresholds
    /\ stSelection = [ device |-> "", sensorType |-> "" ]
    /\ stThresholds = Null
    /\ stInFlight = {}
    /\ stPicks = 0
    /\ stLast = "none"

\* the page is not mounted
ST_Init == ST_Start /\ stBackend = {}

\* selectedDevice or selectedSensorType changes: the effect calls fetchThresholds
ST_SelectionChanged(device, sensorType) ==
    /\ stPicks < MaxPicks
    /\ stSelection # [ device |-> device, sensorType |-> sensorType ]
    /\ stSelection' = [ device |-> device, sensorType |-> sensorType ]
    /\ stInFlight' = stInFlight \cup { stSelection' }
    /\ stPicks' = stPicks + 1
    /\ stLast' = "select"
    /\ UNCHANGED <<stBackend, stThresholds>>

\* fetchThresholds of an earlier call settles: setThresholds with the threshold it
\* found, no call when it found none or when a request failed
ST_fetchThresholds(selection, ok) ==
    /\ selection \in stInFlight
    /\ stInFlight' = stInFlight \ {selection}
    /\ LET chosen == ST_Chosen(stBackend, selection.device, selection.sensorType)
       IN  stThresholds' = IF ok /\ chosen # Null THEN chosen ELSE stThresholds
    /\ stLast' = IF ok THEN "settled" ELSE "failed"
    /\ UNCHANGED <<stBackend, stSelection, stPicks>>

ST_Select ==
    \E device \in ST_Devices, sensorType \in ST_SensorTypes :
        ST_SelectionChanged(device, sensorType)
ST_Settled ==
    \E selection \in stInFlight, ok \in BOOLEAN : ST_fetchThresholds(selection, ok)

-----------------------------------------------------------------------------
(* Specifications *)

Fn_Idle ==
    /\ fnReadings = << >>
    /\ fnThreshold = Null
    /\ fnSensorType = ""
    /\ fnOut = Null

Auth_Idle ==
    /\ user = Null
    /\ loading = TRUE
    /\ storedUser = Null
    /\ location = "/"
    /\ rendered = "Loading"
    /\ redirects = << >>
    /\ guardOut = GuardOutputs(Null, TRUE)
    /\ reloading = FALSE
    /\ requests = {}
    /\ nextRequest = 1
    /\ clears = [ r \in {} |-> 0 ]
    /\ lastResponse = Null
    /\ session = "found"
    /\ authLast = "none"

\* the DeviceDashboard page
InitDD == DD_Init /\ Dash_Init /\ SD_Init /\ Fn_Idle /\ Auth_Idle /\ RD_Init /\ SJ_Init /\ ST_Init
NextDD ==
    \/ DD_DeviceLoaded  /\ UNCHANGED <<dashVars, sdVars, fnVars, authVars, rdVars, sjVars, stVars>>
    \/ DD_FetchComplete /\ UNCHANGED <<dashVars, sdVars, fnVars, authVars, rdVars, sjVars, stVars>>
    \/ DD_FetchFailed   /\ UNCHANGED <<dashVars, sdVars, fnVars, authVars, rdVars, sjVars, stVars>>
    \/ DD_NewSensorData /\ UNCHANGED <<dashVars, sdVars, fnVars, authVars, rdVars, sjVars, stVars>>
SpecDD == InitDD /\ [][NextDD]_vars

\* the main Dashboard page
InitDash == DD_Init /\ Dash_Init /\ SD_Init /\ Fn_Idle /\ Auth_Idle /\ RD_Init /\ SJ_Init /\ ST_Init
NextDash ==
    \/ Dash_ProjectsLoaded /\ UNCHANGED <<ddVars, sdVars, fnVars, authVars, rdVars, sjVars, stVars>>
    \/ Dash_RecentLoaded   /\ UNCHANGED <<ddVars, sdVars, fnVars, authVars, rdVars, sjVars, stVars>>
    \/ Dash_NewSensorData  /\ UNCHANGED <<ddVars, sdVars, fnVars, authVars, rdVars, sjVars, stVars>>
SpecDash == InitDash /\ [][NextDash]_vars

\* the SensorData page
InitSD == DD_Init /\ Dash_Init /\ SD_Init /\ Fn_Idle /\ Auth_Idle /\ RD_Init /\ SJ_Init /\ ST_Init
NextSD ==
    \/ SD_Select        /\ UNCHANGED <<ddVars, dashVars, fnVars, authVars, rdVars, sjVars, stVars>>
    \/ SD_Resolved      /\ UNCHANGED <<ddVars, dashVars, fnVars, authVars, rdVars, sjVars, stVars>>
    \/ SD_Failed        /\ UNCHANGED <<ddVars, dashVars, fnVars, authVars, rdVars, sjVars, stVars>>
    \/ SD_Thresholds    /\ UNCHANGED <<ddVars, dashVars, fnVars, authVars, rdVars, sjVars, stVars>>
    \/ SD_NewSensorData /\ UNCHANGED <<ddVars, dashVars, fnVars, authVars, rdVars, sjVars, stVars>>
    \/ SD_Render        /\ UNCHANGED <<ddVars, dashVars, fnVars, authVars, rdVars, sjVars, stVars>>
SpecSD == InitSD /\ [][NextSD]_vars

\* authentication, the axios interceptors and the route table
InitAuth == DD_Init /\ Dash_Init /\ SD_Init /\ Fn_Idle /\ Auth_Init /\ RD_Init /\ SJ_Init /\ ST_Init
NextAuth ==
    \/ Auth_MountEffect /\ UNCHANGED <<ddVars, dashVars, sdVars, fnVars, rdVars, sjVars, stVars>>
    \/ Auth_Open        /\ UNCHANGED <<ddVars, dashVars, sdVars, fnVars, rdVars, sjVars, stVars>>
    \/ Auth_LoginSubmit /\ UNCHANGED <<ddVars, dashVars, sdVars, fnVars, rdVars, sjVars, stVars>>
    \/ Auth_Logout      /\ UNCHANGED <<ddVars, dashVars, sdVars, fnVars, rdVars, sjVars, stVars>>
    \/ Auth_DataRequest /\ UNCHANGED <<ddVars, dashVars, sdVars, fnVars, rdVars, sjVars, stVars>>
    \/ Auth_Response    /\ UNCHANGED <<ddVars, dashVars, sdVars, fnVars, rdVars, sjVars, stVars>>
    \/ Auth_Reload      /\ UNCHANGED <<ddVars, dashVars, sdVars, fnVars, rdVars, sjVars, stVars>>
SpecAuth == InitAuth /\ [][NextAuth]_vars

\* the two device pages: the router mounts one page at a time, so the behaviour is
\* that of the DeviceDashboard route or that of the SensorData route
DD_Unmounted == ddLast = "none"
SD_Unmounted == sdLast = "none"
InitPages == DD_Init /\ Dash_Init /\ SD_Init /\ Fn_Idle /\ Auth_Idle /\ RD_Init /\ SJ_Init /\ ST_Init
NextPages ==
    \/ SD_Unmounted /\ NextDD
    \/ DD_Unmounted /\ NextSD
SpecPages == InitPages /\ [][NextPages]_vars

\* the project and device filters of the SensorData page and the socket rooms
InitSJ == DD_Init /\ Dash_Init /\ SD_Init /\ Fn_Idle /\ Auth_Idle /\ RD_Init /\ SJ_Start /\ ST_Init
NextSJ ==
    \/ SJ_InitialData   /\ UNCHANGED <<ddVars, dashVars, sdVars, fnVars, authVars, rdVars, stVars>>
    \/ SJ_Devices       /\ UNCHANGED <<ddVars, dashVars, sdVars, fnVars, authVars, rdVars, stVars>>
    \/ SJ_PickProject   /\ UNCHANGED <<ddVars, dashVars, sdVars, fnVars, authVars, rdVars, stVars>>
    \/ SJ_PickDevice    /\ UNCHANGED <<ddVars, dashVars, sdVars, fnVars, authVars, rdVars, stVars>>
SpecSJ == InitSJ /\ [][NextSJ]_vars

\* fetchThresholds on the SensorData page
InitST == DD_Init /\ Dash_Init /\ SD_Init /\ Fn_Idle /\ Auth_Idle /\ RD_Init /\ SJ_Init /\ ST_Start
NextST ==
    \/ ST_Select  /\ UNCHANGED <<ddVars, dashVars, sdVars, fnVars, authVars, rdVars, sjVars>>
    \/ ST_Settled /\ UNCHANGED <<ddVars, dashVars, sdVars, fnVars, authVars, rdVars, sjVars>>
SpecST == InitST /\ [][NextST]_vars

\* the Dashboard that retries its load
InitRD == DD_Init /\ Dash_Init /\ SD_Init /\ Fn_Idle /\ Auth_Idle /\ RD_Init /\ SJ_Init /\ ST_Init
NextRD ==
    \/ RD_Mount       /\ UNCHANGED <<ddVars, dashVars, sdVars, fnVars, authVars, sjVars, stVars>>
    \/ RD_Resolved    /\ UNCHANGED <<ddVars, dashVars, sdVars, fnVars, authVars, sjVars, stVars>>
    \/ RD_Rejected    /\ UNCHANGED <<ddVars, dashVars, sdVars, fnVars, authVars, sjVars, stVars>>
    \/ RD_TimerFires  /\ UNCHANGED <<ddVars, dashVars, sdVars, fnVars, authVars, sjVars, stVars>>
    \/ RD_handleRetry /\ UNCHANGED <<ddVars, dashVars, sdVars, fnVars, authVars, sjVars, stVars>>
SpecRD == InitRD /\ [][NextRD]_vars

\* getAlertLevel on one reading
InitLevel == DD_Init /\ Dash_Init /\ SD_Init /\ Fn_InitLevel /\ Auth_Idle /\ RD_Init /\ SJ_Init /\ ST_Init
NextLevel == Fn_Classify /\ UNCHANGED <<ddVars, dashVars, sdVars, authVars, rdVars, sjVars, stVars>>
SpecLevel == InitLevel /\ [][NextLevel]_vars

\* formatChartData on a list of readings
InitChart == DD_Init /\ Dash_Init /\ SD_Init /\ Fn_InitChart /\ Auth_Idle /\ RD_Init /\ SJ_Init /\ ST_Init
NextChart == Fn_Format /\ UNCHANGED <<ddVars, dashVars, sdVars, authVars, rdVars, sjVars, stVars>>
SpecChart == InitChart /\ [][NextChart]_vars

-----------------------------------------------------------------------------
(* Properties *)

\* C1: on the DeviceDashboard page, when the initial load returned at most 100
\* readings per sensor type, the list held for each sensor type never has more than
\* 100 entries, whatever new-sensor-data events are delivered
C1_DD_WindowBounded ==
    \A st \in DOMAIN ddSensorData : Len(ddSensorData[st]) <= DD_MAX_READINGS

\* a full list (100 readings loaded, the 100th among them) took a streamed reading
\* and is still 100 long
C1_Witness ==
    /\ ddLast = "applied"
    /\ "temperature" \in DOMAIN ddSensorData
    /\ LET l == ddSensorData["temperature"]
       IN  /\ Len(l) = DD_MAX_READINGS
           /\ \E i \in 1 .. Len(l) : l[i] = ServerReading(DeviceId, "temperature", DD_MAX_READINGS)
           /\ \E i \in 1 .. Len(l) : l[i].device.isObject

\* C2: on the main Dashboard page, once a new-sensor-data event has been applied
\* recentData holds at most 50 readings, whatever its length was before
C2_Dash_RecentBounded ==
    dashLast = "applied" => Len(recentData) <= DASH_MAX_RECENT

\* 60 readings were loaded, an event for a pair not among them was applied, and the
\* list was cut to the last 50
C2_Witness ==
    /\ dashLast = "applied"
    /\ dashEvents = 1
    /\ Len(recentData) = DASH_MAX_RECENT
    /\ recentData[1] = Dash_ServerRecent(DASH_MAX_RECENT + 10)[12]
    /\ recentData[Len(recentData)].sensorType = "pH"

\* C3: on the SensorData page the number of readings held in sensorData never
\* exceeds a fixed bound (the most a fetch returns, limit: 1000), whatever matching
\* new-sensor-data events are delivered
C3_SD_WindowBounded == Len(sdSensorData) <= SD_FETCH_LIMIT

\* the level the claim gives for value v under threshold t, or for the reading's
\* own level when no threshold is loaded
C4_IsLevel(level, reading, t) ==
    LET v == reading.value
    IN  IF t # Null THEN
            LET critical == v < t.criticalMin \/ v > t.criticalMax
                warning  == ~critical /\ (v < t.warningMin \/ v > t.warningMax)
            IN  /\ (level = "critical") <=> critical
                /\ (level = "warning")  <=> warning
                /\ (level = "normal")   <=> (~critical /\ ~warning)
        ELSE level = (IF reading.alertLevel = "none" THEN "normal" ELSE reading.alertLevel)

\* C4: getAlertLevel (DeviceDashboard and SensorData) returns exactly one level:
\* critical iff v < criticalMin or v > criticalMax, otherwise warning iff
\* v < warningMin or v > warningMax, otherwise normal; with no threshold loaded it
\* returns the reading's own alertLevel, or normal if the reading has none
C4_AlertLevel ==
    fnOut # Null /\ "ddLevel" \in DOMAIN fnOut =>
        /\ fnOut.ddLevel \in {"normal", "warning", "critical"}
        /\ fnOut.sdLevel \in {"normal", "warning", "critical"}
        /\ C4_IsLevel(fnOut.ddLevel, fnReadings[1], fnThreshold)
        /\ C4_IsLevel(fnOut.sdLevel, fnReadings[1], fnThreshold)

\* a value on the critical bound, inside a warning range that it leaves, was classified
C4_Witness ==
    /\ fnOut # Null /\ "ddLevel" \in DOMAIN fnOut
    /\ fnThreshold # Null
    /\ fnReadings[1].value = fnThreshold.criticalMin
    /\ fnReadings[1].value < fnThreshold.warningMin
    /\ fnOut.ddLevel = "warning"

\* the chart has labels and the datasets Normal, Warning, Critical, all as long as
\* the readings list, and at every index one dataset holds the value of the reading
\* (in timestamp order) and the other two hold null
C5_Segmented(chart, readings) ==
    LET sorted == SortByTimestamp(readings)
    IN  /\ Len(chart.labels) = Len(readings)
        /\ Len(chart.datasets) = 3
        /\ chart.datasets[1].label = "Normal"
        /\ chart.datasets[2].label = "Warning"
        /\ chart.datasets[3].label = "Critical"
        /\ \A d \in 1 .. 3 : Len(chart.datasets[d].data) = Len(readings)
        /\ \A i \in 1 .. Len(readings) :
             \E d \in 1 .. 3 :
                /\ chart.datasets[d].data[i] = Num(sorted[i].value)
                /\ \A e \in (1 .. 3) \ {d} : chart.datasets[e].data[i] = Null

C6_Consistent(chart) ==
    /\ \A d \in 1 .. Len(chart.datasets) : Len(chart.datasets[d].data) = Len(chart.labels)
    /\ Len(chart.labels) <= SD_CHART_MAX_POINTS

\* C6: on the SensorData page, once the real-time handler has applied a matching
\* reading directly to the chart buffer, the labels and every dataset of the chart
\* have equal length and there are at most 100 labels
C6_SD_ChartConsistent ==
    sdLast = "applied" /\ sdChartRefs[sdSelectedSensorType] # Null =>
        C6_Consistent(sdChartRefs[sdSelectedSensorType])

\* C7: every response with status 401 that comes through axiosInstance removes the
\* stored user from localStorage, sends the browser to /login and is still rejected
\* to the caller, and for one request the clearing happens at most once
C7_UnauthorizedClearsSession ==
    /\ [][ authLast' = "response" /\ lastResponse' # Null /\ lastResponse'.status = UNAUTHORIZED =>
             /\ storedUser' = Null
             /\ reloading'
             /\ lastResponse'.outcome = "rejected"
             /\ clears'[lastResponse'.id] = clears[lastResponse'.id] + 1 ]_vars
    /\ [](\A r \in DOMAIN clears : clears[r] <= 1)

\* a page's request was answered 401 while a user was logged in: the stored user is
\* gone, the browser is leaving for /login and the caller got the rejection
C7_Witness ==
    /\ authLast = "response"
    /\ lastResponse # Null
    /\ lastResponse.status = UNAUTHORIZED
    /\ lastResponse.kind = "data"
    /\ lastResponse.outcome = "rejected"
    /\ user # Null
    /\ storedUser = Null
    /\ reloading
    /\ clears[lastResponse.id] = 1

\* the create and edit routes of the route table
CrudRoutes == { "/projects/new", "/projects/:id/edit", "/devices/add",
                "/devices/:id/edit", "/users", "/register-user" }

\* C8: a logged-in user whose role is neither superadmin nor projectadmin never has
\* the form page of a create or edit route rendered
C8_CrudRoleGated ==
    ~loading /\ user # Null /\ user.role \notin {"superadmin", "projectadmin"} =>
        ~(location \in CrudRoutes /\ rendered = ChildRoutes[location].page)

\* the predicate of each guard, as C9 states it
C9_Allowed(g, u) ==
    /\ u # Null
    /\ CASE g = "AdminRoute"      -> u.role \in {"superadmin", "projectadmin"}
         [] g = "SuperAdminRoute" -> u.role = "superadmin"
         [] OTHER                 -> TRUE

\* C9: a guard renders its children only when loading is false and its predicate
\* holds; when loading is false it redirects to /login if no user is logged in and
\* to / if a user is logged in and the role predicate fails
C9_GuardsDecide ==
    \A g \in Guards :
        /\ guardOut[g] = Children => ~loading /\ C9_Allowed(g, user)
        /\ ~loading /\ user = Null => guardOut[g] = Navigate("/login")
        /\ ~loading /\ user # Null /\ ~C9_Allowed(g, user) => guardOut[g] = Navigate("/")

\* a plain user is logged in: AdminRoute and SuperAdminRoute redirect to / while
\* ProtectedRoute and PrivateRoute render their children
C9_Witness ==
    /\ ~loading
    /\ user # Null /\ user.role = "user"
    /\ guardOut["AdminRoute"] = Navigate("/")
    /\ guardOut["SuperAdminRoute"] = Navigate("/")
    /\ guardOut["ProtectedRoute"] = Children
    /\ guardOut["PrivateRoute"] = Children

\* C10: with a user record in localStorage no route is redirected to /login; the
\* guards show the placeholder while loading is true, and loading becomes false
\* only together with the stored user becoming the current user
C10_StoredUserNotSentToLogin ==
    /\ [](storedUser # Null => \A i \in 1 .. Len(redirects) : redirects[i] # "/login")
    /\ [](loading => \A g \in Guards : guardOut[g] = Placeholder)
    /\ [][ loading /\ ~loading' /\ storedUser # Null => user' = Parse(storedUser) ]_vars

\* the app was started on a protected path with a stored user, the mount effect has
\* run and the page of the path is shown without any redirect
C10_Witness ==
    /\ authLast = "mount"
    /\ ~loading
    /\ storedUser # Null
    /\ user = Parse(storedUser)
    /\ location = "/sensor-data"
    /\ rendered = "SensorData"
    /\ redirects = << >>

\* the requests sent in a step
C11_Sent == requests' \ requests

\* C11: a request sent through axiosInstance carries the Authorization header of the
\* stored user's token exactly when localStorage holds a user record with a token at
\* that moment, and after a logout has completed or a 401 has been handled no request
\* carries the header until a login succeeds
C11_AuthorizationHeader ==
    [][ \A r \in C11_Sent :
          /\ r.authorization # Null <=> storedUser # Null /\ Parse(storedUser).token # ""
          /\ r.authorization # Null => r.authorization = [ bearer |-> Parse(storedUser).token ]
          /\ session = "cleared" => r.authorization = Null ]_vars

\* a 401 was handled while a user with a token was logged in, and a page request
\* sent before the document is replaced carries no Authorization header
C11_Witness ==
    /\ session = "cleared"
    /\ user # Null /\ user.token # ""
    /\ \E r \in requests : r.kind = "data" /\ r.authorization = Null

\* C12: when every fetch fails and Retry is never clicked, the dashboard data is
\* fetched at most 4 times, the retries being scheduled after 1 s, 2 s and 4 s; the
\* 'after multiple attempts' toast is shown at most once, only after the fourth
\* fetch has failed, and once nothing is in flight or scheduled it has been shown
\* exactly once and no further fetch is started
C12_AutoRetryBounded ==
    rdResolved = 0 /\ rdClicks = 0 =>
        /\ rdFetches <= RD_MAX_RETRIES + 1
        /\ rdRetryCount <= RD_MAX_RETRIES
        /\ rdDelays = SubSeq(<<1000, 2000, 4000>>, 1, Len(rdDelays))
        /\ rdToasts <= 1
        /\ rdToasts = 1 =>
               /\ rdFetches = RD_MAX_RETRIES + 1
               /\ rdTimers = 0
               /\ \A c \in RD_Counts : rdInFlight[c] = 0
        /\ (rdLast # "none" /\ rdTimers = 0 /\ \A c \in RD_Counts : rdInFlight[c] = 0) =>
               rdToasts = 1

\* the fourth fetch has failed without any click: the toast has been shown and
\* the error screen is displayed with nothing left to run
C12_Witness ==
    /\ rdResolved = 0 /\ rdClicks = 0
    /\ rdFetches = 4
    /\ rdDelays = <<1000, 2000, 4000>>
    /\ rdToasts = 1
    /\ rdTimers = 0
    /\ \A c \in RD_Counts : rdInFlight[c] = 0
    /\ RD_ErrorScreen

\* C13: whenever the error screen is shown, a click on Retry starts a new fetch of
\* the dashboard data, whatever retryCount is
C13_RetryFetches ==
    [][ RD_ErrorScreen /\ rdClicks' = rdClicks + 1 => rdFetches' = rdFetches + 1 ]_vars

\* the list is in non-decreasing timestamp order
C14_Sorted(s) == \A i \in 1 .. Len(s) - 1 : s[i].timestamp <= s[i + 1].timestamp

\* C14: once a new-sensor-data event has been applied, the list of the affected
\* sensor type on DeviceDashboard (the other lists being untouched) and the
\* sensorData list on SensorData are sorted by non-decreasing timestamp
C14_StreamKeepsOrder ==
    /\ [][ ddLast' = "applied" /\ ddEvents' = ddEvents + 1 =>
             \E st \in DOMAIN ddSensorData' :
                /\ C14_Sorted(ddSensorData'[st])
                /\ \A other \in DOMAIN ddSensorData' \ {st} :
                      ddSensorData'[other] = ddSensorData[other] ]_vars
    /\ [](sdLast = "applied" => C14_Sorted(sdSensorData))

\* the SensorData page loaded 100 readings that the server did not send in
\* timestamp order, and a streamed reading with the earliest timestamp was applied
C14_Witness ==
    /\ sdLast = "applied"
    /\ Len(sdSensorData) = 101
    /\ ~C14_Sorted(ServerReadings(DeviceId, sdSelectedSensorType, 100))
    /\ Len(SelectSeq(sdSensorData, LAMBDA r : r.timestamp = 0)) =
          Len(SelectSeq(ServerReadings(DeviceId, sdSelectedSensorType, 100),
                        LAMBDA r : r.timestamp = 0)) + 1
    /\ sdSensorData[101].timestamp = 2

\* the readings held in a list
C15_Held(s) == { s[i] : i \in 1 .. Len(s) }

\* C15: a new-sensor-data event changes the readings state, the summaries and the
\* chart buffer only by adding a reading of the displayed device (and, on
\* SensorData, of the selected sensor type; on DeviceDashboard, to the loaded list
\* of its own sensor type): an event for another device, another sensor type or a
\* sensor type with no loaded list leaves them unchanged
C15_OtherEventsChangeNothing ==
    /\ [][ ddEvents' = ddEvents + 1 =>
             /\ DOMAIN ddSensorData' = DOMAIN ddSensorData
             /\ \A st \in DOMAIN ddSensorData :
                  \A r \in C15_Held(ddSensorData'[st]) \ C15_Held(ddSensorData[st]) :
                      r.device.id = ddDevice /\ r.sensorType = st
             /\ ddSummaries' # ddSummaries => ddSensorData' # ddSensorData
             /\ ddLast' = "ignored" => UNCHANGED <<ddSensorData, ddSummaries>> ]_vars
    /\ [][ sdEvents' = sdEvents + 1 =>
             /\ \A r \in C15_Held(sdSensorData') \ C15_Held(sdSensorData) :
                   r.device.id = sdSelectedDevice /\ r.sensorType = sdSelectedSensorType
             /\ Len(sdSensorData') # Len(sdSensorData) =>
                   /\ Len(sdSensorData') = Len(sdSensorData) + 1
                   /\ \E r \in C15_Held(sdSensorData') :
                         r.device.id = sdSelectedDevice /\ r.sensorType = sdSelectedSensorType
             /\ sdChartRefs' # sdChartRefs => Len(sdSensorData') = Len(sdSensorData) + 1
             /\ sdLast' = "ignored" => UNCHANGED <<sdSensorData, sdChartRefs>> ]_vars

\* the SensorData page shows 1000 readings and a chart, and an event that was not
\* for the selection has just been ignored
C15_Witness ==
    /\ sdLast = "ignored"
    /\ sdSelectedSensorType # ""
    /\ Len(sdSensorData) = SD_FETCH_LIMIT
    /\ sdChartRefs[sdSelectedSensorType] # Null

\* C16: whenever the SensorData page displays a device (selectedDevice is set, from
\* the dropdown or from the URL), join-project has been emitted on the socket for
\* the project of that device
C16_DisplayedDeviceJoined ==
    sjSelectedDevice # "" => DeviceProject(sjSelectedDevice) \in sjJoined

\* the threshold defined for a device and sensor type, by precedence: the device's,
\* else the project's, else the default, else none
C17_Defined(device, sensorType) ==
    LET at(level) == [ level |-> level, device |-> IF level = "device" THEN device ELSE "",
                       sensorType |-> sensorType ]
    IN  CASE at("device")  \in stBackend -> at("device")
          [] at("project") \in stBackend -> at("project")
          [] at("default") \in stBackend -> at("default")
          [] OTHER -> Null

\* C17: once threshold fetching has settled on the SensorData page, the thresholds
\* in use are the ones defined for the selected device and sensor type by
\* precedence (device, project, default), never those of an earlier selection
C17_ThresholdsOfSelection ==
    stSelection.device # "" /\ stInFlight = {} /\ stThresholds # Null =>
        stThresholds = C17_Defined(stSelection.device, stSelection.sensorType)

\* C18: after the selection on the SensorData page has changed any number of times
\* and every request has settled, the readings shown are those returned for the
\* current selection, not the response to an earlier one
C18_LatestSelectionShown ==
    sdInFlight = {} /\ sdLast \in {"load", "failed"} =>
        \A i \in 1 .. Len(sdSensorData) :
            sdSensorData[i].sensorType = sdSelectedSensorType

\* the positions of s that hold a reading of the device and sensor type of r
C19_OfPair(s, r) ==
    { i \in 1 .. Len(s) : s[i].device = r.device /\ s[i].sensorType = r.sensorType }

\* the readings of s of every other pair than r's, in their order
C19_Others(s, r) ==
    SelectSeq(s, LAMBDA item : item.device # r.device \/ item.sensorType # r.sensorType)

\* C19: on the main Dashboard page, once a new-sensor-data event for device d and
\* sensor type s has been applied, recentData holds exactly one reading of (d, s),
\* the event's, as its last element, and the readings of all other pairs are the
\* ones held before, in the same order (the oldest give way to the cap of 50)
C19_PairReplaced ==
    [][dashLast' = "applied" =>
         /\ Len(recentData') >= 1
         /\ LET new == recentData'[Len(recentData')]
            IN  /\ new \in DashEventReadings
                /\ C19_OfPair(recentData', new) = { Len(recentData') }
                /\ C19_Others(recentData', new) =
                       SliceLast(C19_Others(recentData, new), DASH_MAX_RECENT - 1)]_vars

\* two readings were loaded and an event for the pair of the first one was applied:
\* the first is gone, the second is kept, the event's reading is last
C19_Witness ==
    /\ dashLast = "applied"
    /\ dashEvents = 1
    /\ Len(recentData) = 2
    /\ recentData[1] = Dash_ServerRecent(2)[2]
    /\ recentData[2].device = Dash_ServerRecent(2)[1].device
    /\ recentData[2].sensorType = Dash_ServerRecent(2)[1].sensorType
    /\ recentData[2] \in DashEventReadings

\* C20: when a login, a failed login or a logout completes, the in-memory user is
\* non-null exactly when localStorage holds a user record: a successful login puts
\* the response data in both, a failed login changes neither, a logout clears both
\* whatever the answer to its request
C20_UserMatchesStorage ==
    [][~reloading /\ authLast' = "response" /\ lastResponse'.kind \in {"login", "logout"} =>
         /\ user' # Null <=> storedUser' # Null
         /\ lastResponse'.kind = "login" /\ lastResponse'.outcome = "resolved" =>
                user' # Null /\ storedUser' = Stringify(user')
         /\ lastResponse'.kind = "login" /\ lastResponse'.outcome = "rejected" =>
                user' = user /\ storedUser' = storedUser
         /\ lastResponse'.kind = "logout" => user' = Null /\ storedUser' = Null]_vars

\* C21: on DeviceDashboard a reading for the displayed device that the registered
\* listener was called with is not lost: once the initial load has finished it is
\* in the list of its sensor type, unless that list is full at 100 entries, also
\* when it was delivered while the per-sensor fetches were in flight
C21_DeliveredReadingKept ==
    ~ddLoading =>
        \A r \in { d \in ddDelivered : d.sensorType \in DOMAIN ddSensorData } :
            \/ \E i \in 1 .. Len(ddSensorData[r.sensorType]) : ddSensorData[r.sensorType][i] = r
            \/ Len(ddSensorData[r.sensorType]) >= DD_MAX_READINGS

====
